---- MODULE Spec2Model ----
(***************************************************************************)
(* Model of scripts/store_manager.py: the F-Droid metadata extractor       *)
(* (get_fdroid_metadata), the catalog store (load_apps / save_apps), the   *)
(* sync reconciler (sync_tracked_apps) and the update sweeper (update_all).*)
(*                                                                         *)
(* Text is modelled as a sequence of tokens.  A token is a piece of text   *)
(* that none of the string operations of the script looks inside: " " and  *)
(* "\n" are whitespace, "/" is the path separator, "#" the comment marker, *)
(* "." the dot, "f-droid.org" the domain literal, "Version" the label the  *)
(* version header carries, ".apk" the file extension.  A python dict is a  *)
(* function from its keys to its values, so a record with a missing field  *)
(* is a function with a smaller DOMAIN.  None is the empty sequence of an  *)
(* "optional" (a sequence of length at most one).                          *)
(***************************************************************************)
EXTENDS Integers, Sequences, FiniteSets, TLC

(***************************************************************************)
(* Bounds of the model.                                                    *)
(***************************************************************************)
MaxLines == 2
MaxCatalog == 1
MaxRuns == 2

(***************************************************************************)
(* String operations of python, on token sequences.                        *)
(***************************************************************************)
IsSpace(t) == t \in {" ", "\n"}

RECURSIVE LStrip(_)
LStrip(s) == IF s # <<>> /\ IsSpace(Head(s)) THEN LStrip(Tail(s)) ELSE s

RECURSIVE RStrip(_)
RStrip(s) ==
    IF s # <<>> /\ IsSpace(s[Len(s)]) THEN RStrip(SubSeq(s, 1, Len(s) - 1)) ELSE s

\* str.strip()
Strip(s) == RStrip(LStrip(s))

\* str.rstrip('/')
RECURSIVE RStripSlash(_)
RStripSlash(s) ==
    IF s # <<>> /\ s[Len(s)] = "/" THEN RStripSlash(SubSeq(s, 1, Len(s) - 1)) ELSE s

\* str.split('/')[-1]
LastSegment(s) ==
    LET slashes == {i \in 1..Len(s) : s[i] = "/"}
        last == IF slashes = {} THEN 0
                ELSE CHOOSE i \in slashes : \A j \in slashes : j <= i
    IN  SubSeq(s, last + 1, Len(s))

\* str.split(' ')[0]
FirstWord(s) ==
    LET spaces == {i \in 1..Len(s) : s[i] = " "}
        first == IF spaces = {} THEN Len(s) + 1
                 ELSE CHOOSE i \in spaces : \A j \in spaces : i <= j
    IN  SubSeq(s, 1, first - 1)

\* 'f-droid.org' in s
ContainsDomain(s) == \E i \in 1..Len(s) : s[i] = "f-droid.org"

\* s.startswith('#')
StartsWithHash(s) == s # <<>> /\ s[1] = "#"

\* s.startswith('http')
StartsWithHttp(s) == s # <<>> /\ s[1] \in {"http:", "https:"}

\* s.endswith('.apk')
EndsWithApk(s) == s # <<>> /\ s[Len(s)] = ".apk"

\* s.replace('.', '-')
DotsToDashes(s) == [i \in 1..Len(s) |-> IF s[i] = "." THEN "-" ELSE s[i]]

\* s.replace('Version', '')
DropVersionLabel(s) == SelectSeq(s, LAMBDA t : t # "Version")

\* dict.get(k, d) and d[k] = v
Get(d, k, default) == IF k \in DOMAIN d THEN d[k] ELSE default
DictSet(d, k, v) == [x \in DOMAIN d \cup {k} |-> IF x = k THEN v ELSE d[x]]

(***************************************************************************)
(* Configuration.                                                          *)
(***************************************************************************)
FDROID_ORIGIN == <<"https:", "/", "/", "f-droid.org">>
FDROID_BASE_URL == FDROID_ORIGIN \o <<"/", "en", "/", "packages", "/">>

Absolute(src) == IF StartsWithHttp(src) THEN src ELSE FDROID_ORIGIN \o src

(***************************************************************************)
(* get_fdroid_metadata.  A page is what BeautifulSoup finds in a response: *)
(*   status        the HTTP status code                                    *)
(*   title         optional text of the first .package-name element        *)
(*   summary       optional text of the first .package-summary element     *)
(*   icon          optional attributes (a dict) of the first .package-icon *)
(*   screenshots   attributes of each '.screenshot-container img'          *)
(*   version_item  optional first .package-version element: the optional   *)
(*                 text of its header and the hrefs of its links           *)
(* response is <<>> when requests.get raises, else <<page>>.               *)
(* The result is <<>> for None, else <<record>>.                           *)
(***************************************************************************)
HTTP_OK == 200

\* lines 36-38: the package id the extractor derives from its input
PackageId(package_input) ==
    LET stripped == Strip(package_input)
    IN  IF ContainsDomain(stripped) THEN LastSegment(RStripSlash(stripped))
        ELSE stripped

\* line 40
PageUrl(package_id) == FDROID_BASE_URL \o package_id \o <<"/">>

\* lines 64-70
RECURSIVE Screenshots(_)
Screenshots(imgs) ==
    IF imgs = <<>> THEN <<>>
    ELSE LET src == Get(Head(imgs), "src", <<>>)
         IN  (IF src # <<>> THEN <<Absolute(src)>> ELSE <<>>) \o Screenshots(Tail(imgs))

\* lines 73, 78-84: "Latest" unless the first version block has a header
DEFAULT_VERSION == <<"Latest">>

ParseVersion(version_item) ==
    IF version_item # <<>> /\ version_item[1].header # <<>>
    THEN FirstWord(Strip(DropVersionLabel(Strip(version_item[1].header[1]))))
    ELSE DEFAULT_VERSION

\* lines 74, 86-89: "#" unless the first version block links to an .apk
ParseDownloadUrl(version_item) ==
    LET apks == IF version_item = <<>> THEN <<>>
                ELSE SelectSeq(version_item[1].links, EndsWithApk)
    IN  IF apks = <<>> THEN <<"#">> ELSE Absolute(apks[1])

get_fdroid_metadata(package_input, response) ==
    LET package_id == PackageId(package_input)
        url == PageUrl(package_id)
    IN  IF response = <<>> THEN <<>>                             \* requests.get raised
        ELSE LET page == response[1] IN
        IF page.status # HTTP_OK THEN <<>>
        ELSE IF page.icon # <<>> /\ "src" \notin DOMAIN page.icon[1]
        THEN <<>>                                                \* KeyError, caught
        ELSE LET icon_url == IF page.icon = <<>> THEN <<>> ELSE page.icon[1].src
                 version == ParseVersion(page.version_item)
             IN << [ id |-> DotsToDashes(package_id),
                     name |-> IF page.title # <<>> THEN Strip(page.title[1])
                              ELSE package_id,
                     description |-> IF page.summary # <<>> THEN Strip(page.summary[1])
                                     ELSE <<"No description available.">>,
                     icon |-> IF icon_url # <<>> THEN Absolute(icon_url) ELSE icon_url,
                     version |-> version,
                     latestVersion |-> version,
                     downloadUrl |-> ParseDownloadUrl(page.version_item),
                     repoUrl |-> url,
                     githubRepo |-> <<>>,
                     releaseKeyword |-> package_id,
                     packageName |-> package_id,
                     category |-> <<"Utility">>,
                     platform |-> <<"Android">>,
                     size |-> <<"Varies">>,
                     author |-> <<"F-Droid">>,
                     screenshots |-> Screenshots(page.screenshots) ] >>

(***************************************************************************)
(* The inputs the model draws from: package ids, pages, tracked lines and  *)
(* catalog records.                                                        *)
(***************************************************************************)
idA == <<"org", ".", "a">>
idB == <<"org", ".", "b">>

NotFoundPage ==
    [status |-> 404, title |-> <<>>, summary |-> <<>>, icon |-> <<>>,
     screenshots |-> <<>>, version_item |-> <<>>]

\* a full page: relative icon, screenshot and apk link, "Version 1.0 (Added on ...)"
PageV1 ==
    [status |-> 200, title |-> << <<" ", "App">> >>, summary |-> << <<"An app">> >>,
     icon |-> << [src |-> <<"/", "icon.png">>] >>,
     screenshots |-> << [src |-> <<"/", "shot.png">>], [alt |-> <<"x">>] >>,
     version_item |-> << [header |-> << <<"Version", " ", "1.0", " ", "(Added)">> >>,
                          links |-> << <<"/", "perm">>, <<"/", "v1", ".apk">> >>] >>]

\* a page whose version block has no header; no icon element, absolute links
PageNoHeader ==
    [status |-> 200, title |-> <<>>, summary |-> <<>>, icon |-> <<>>,
     screenshots |-> << [src |-> <<"https:", "/", "/", "cdn", "/", "shot.png">>] >>,
     version_item |-> << [header |-> <<>>,
                          links |-> << <<"https:", "/", "/", "mirror", "/", "v0", ".apk">> >>] >>]

PageChoices == {NotFoundPage, PageV1, PageNoHeader}

KnownUrls == {PageUrl(idA), PageUrl(idB)}

\* the pages the site may hold at a URL
PagesAt(url) == IF url \in KnownUrls THEN PageChoices ELSE {NotFoundPage}

\* raw lines of tracked_apps.txt, as readlines() returns them
LineChoices ==
    { idA \o <<"\n">>,                                   \* a bare identifier
      FDROID_BASE_URL \o idB \o <<"/", "\n">>,           \* a full URL, trailing slash
      idA \o <<" ", "/", "\n">>,                         \* a space before the slash
      <<"#", " ">> \o idB \o <<"\n">>,                   \* a comment
      <<" ", "\n">>,                                     \* a blank line
      <<" ", "#">> \o idA \o <<"\n">> }                  \* an indented comment marker

\* records a catalog may hold before the first command
RecordA == get_fdroid_metadata(idA, <<PageV1>>)[1]

RecordB ==
    [id |-> DotsToDashes(idB), name |-> <<"B">>, icon |-> <<"b.png">>,
     version |-> <<"0.9">>, latestVersion |-> <<"0.9">>, downloadUrl |-> <<"#">>,
     repoUrl |-> PageUrl(idB), packageName |-> idB, category |-> <<"Games">>,
     author |-> <<"F-Droid">>]

\* a record edited by hand: no name, no latestVersion, no repoUrl
RecordNoName ==
    [packageName |-> idA, author |-> <<"F-Droid">>, version |-> <<"1.0">>]

\* a record of another source
RecordOther ==
    [name |-> <<"X">>, packageName |-> <<"com", ".", "x">>, author |-> <<"Someone">>,
     repoUrl |-> <<"https:", "/", "/", "github.com", "/", "x">>,
     latestVersion |-> <<"3">>, version |-> <<"3">>]

RecordChoices == {RecordA, RecordB, RecordNoName, RecordOther}

SeqsUpTo(S, n) == UNION {[1..k -> S] : k \in 0..n}

\* apps.json: absent, not parseable, or a JSON array of records
CatalogFiles ==
    {[kind |-> "absent", apps |-> <<>>], [kind |-> "corrupt", apps |-> <<>>]}
    \cup {[kind |-> "json", apps |-> c] : c \in SeqsUpTo(RecordChoices, MaxCatalog)}

\* tracked_apps.txt: <<>> when absent, else <<its raw lines>>
TrackedFiles == {<<>>} \cup {<<t>> : t \in SeqsUpTo(LineChoices, MaxLines)}

(***************************************************************************)
(* load_apps and save_apps.                                                *)
(***************************************************************************)
\* lines 13-21: [] when the file is absent or does not parse
load_apps(f) == IF f.kind = "json" THEN f.apps ELSE <<>>

\* lines 23-30: what the file may hold after save_apps(apps): the document, the
\* old file (open failed) or a truncated document (the dump failed)
save_apps(f, apps) ==
    { [kind |-> "json", apps |-> apps], f, [kind |-> "corrupt", apps |-> <<>>] }

(***************************************************************************)
(* State.                                                                  *)
(***************************************************************************)
VARIABLES
    apps_file,      \* apps.json
    tracked_file,   \* tracked_apps.txt
    web,            \* the pages fetched so far, by URL: the site does not change
    pc,             \* where the process is
    command,        \* sys.argv[1]
    runs,           \* commands started so far
    lines,          \* sync_tracked_apps: the filtered, stripped lines
    idx,            \* sync_tracked_apps: the next line of the loop
    sync_apps,      \* sync_tracked_apps: apps
    is_modified,    \* sync_tracked_apps: is_modified
    apps,           \* update_all: apps
    pos,            \* update_all: the next record of the loop
    updated_count,  \* update_all: updated_count
    \* history of the running command, written but never read by the program
    reads,          \* calls of load_apps
    writes,         \* calls of save_apps
    dirty,          \* the in-memory catalog in use was mutated
    read_dirty,     \* load_apps was called while the one in use was mutated
    loaded,         \* the catalog sync_tracked_apps loaded
    iterations,     \* one entry per iteration of the reconcile loop
    sweeps,         \* calls of update_all
    swept,          \* the catalog update_all loaded
    last,           \* the last iteration of the sweep loop
    checks,       \* the stored and the fetched version of each successful check
    saved,          \* one entry per save_apps call
    summary,        \* update_all printed its summary
    \* history across commands
    clean           \* no request raised and no save failed so far

vars == <<apps_file, tracked_file, web, pc, command, runs, lines, idx, sync_apps,
          is_modified, apps, pos, updated_count, reads, writes, dirty, read_dirty,
          loaded, iterations, sweeps, swept, last, checks, saved,
          summary, clean>>

files == <<apps_file, tracked_file>>
sync_locals == <<lines, idx, sync_apps, is_modified>>
update_locals == <<apps, pos, updated_count>>

Init ==
    /\ command \in {"sync", "update"}
    /\ apps_file \in CatalogFiles
    \* update_all never reads tracked_apps.txt: for `update` the file is left absent
    /\ tracked_file \in (IF command = "sync" THEN TrackedFiles ELSE {<<>>})
    /\ web = <<>>
    /\ pc = "idle"
    /\ runs = 0
    /\ lines = <<>> /\ idx = 1 /\ sync_apps = <<>> /\ is_modified = FALSE
    /\ apps = <<>> /\ pos = 1 /\ updated_count = 0
    /\ reads = 0 /\ writes = 0 /\ dirty = FALSE /\ read_dirty = FALSE
    /\ loaded = <<>> /\ iterations = <<>> /\ sweeps = 0 /\ swept = <<>>
    /\ last = <<>> /\ checks = <<>> /\ saved = <<>> /\ summary = FALSE
    /\ clean = TRUE

\* lines 199-209: the command line selects the function
NewCommand(cmd) ==
    /\ pc = "idle"
    /\ command = cmd
    /\ runs' = runs + 1

\* requests.get(url): it raises, or answers with the page the site holds at url
Responses(url) ==
    {<<>>} \cup {<<p>> : p \in (IF url \in DOMAIN web THEN {web[url]} ELSE PagesAt(url))}

Fetched(url, response) ==
    IF response # <<>> /\ url \in KnownUrls /\ url \notin DOMAIN web
    THEN [u \in DOMAIN web \cup {url} |-> IF u = url THEN response[1] ELSE web[u]]
    ELSE web

(***************************************************************************)
(* sync_tracked_apps                                                       *)
(***************************************************************************)
\* a reading that tests the stripped line for the comment marker
TrackedLinesStripFirst(raw) ==
    LET kept == SelectSeq(raw, LAMBDA l : Strip(l) # <<>> /\ ~StartsWithHash(Strip(l)))
    IN  [i \in 1..Len(kept) |-> Strip(kept[i])]

\* line 126: the lines the loop will process
TrackedLines(raw) ==
    LET kept == SelectSeq(raw, LAMBDA l : Strip(l) # <<>> /\ ~StartsWithHash(l))
    IN  [i \in 1..Len(kept) |-> Strip(kept[i])]

\* line 133
CandidateId(line) == LastSegment(RStripSlash(line))

\* an existence check that looks at the id slug of the records
ExistsById(catalog, package_id) ==
    \E i \in 1..Len(catalog) :
        "id" \in DOMAIN catalog[i] /\ catalog[i].id = package_id

\* line 136
Exists(catalog, package_id) ==
    \E i \in 1..Len(catalog) :
        "packageName" \in DOMAIN catalog[i] /\ catalog[i].packageName = package_id

\* lines 119-121: no tracked file, the function returns
SyncNoTrackedFile ==
    /\ NewCommand("sync")
    /\ tracked_file = <<>>
    /\ pc' = "returned"
    /\ lines' = <<>> /\ idx' = 1 /\ sync_apps' = <<>> /\ is_modified' = FALSE
    /\ apps' = <<>> /\ pos' = 1 /\ updated_count' = 0
    /\ reads' = 0 /\ writes' = 0 /\ dirty' = FALSE /\ read_dirty' = FALSE
    /\ loaded' = <<>> /\ iterations' = <<>> /\ sweeps' = 0 /\ swept' = <<>>
    /\ last' = <<>> /\ checks' = <<>> /\ saved' = <<>> /\ summary' = FALSE
    /\ UNCHANGED <<files, web, command, clean>>

\* lines 123-129
SyncEnter ==
    /\ tracked_file # <<>>
    /\ lines' = TrackedLines(tracked_file[1])
    /\ sync_apps' = load_apps(apps_file)
    /\ is_modified' = FALSE
    /\ idx' = 1
    /\ pc' = "reconcile"
    /\ apps' = <<>> /\ pos' = 1 /\ updated_count' = 0
    /\ reads' = 1 /\ writes' = 0 /\ dirty' = FALSE /\ read_dirty' = FALSE
    /\ loaded' = load_apps(apps_file)
    /\ iterations' = <<>> /\ sweeps' = 0 /\ swept' = <<>>
    /\ last' = <<>> /\ checks' = <<>> /\ saved' = <<>> /\ summary' = FALSE
    /\ UNCHANGED <<files, web, command, clean>>

\* the `sync` command
SyncStart == NewCommand("sync") /\ SyncEnter

\* the `sync` command once more, after a `sync` command has run to its end
SyncAgain ==
    /\ pc = "done"
    /\ command = "sync"
    /\ runs < MaxRuns
    /\ runs' = runs + 1
    /\ SyncEnter

\* lines 131-146: one iteration of the loop
ReconcileStep ==
    /\ pc = "reconcile"
    /\ idx <= Len(lines)
    /\ LET package_id == CandidateId(lines[idx])
           exists == Exists(sync_apps, package_id)
       IN  IF exists
           THEN /\ iterations' = Append(iterations,
                       [line |-> lines[idx], package_id |-> package_id,
                        exists |-> TRUE, fetched |-> FALSE, new_data |-> <<>>])
                /\ UNCHANGED <<sync_apps, is_modified, web, clean, dirty>>
           ELSE \E response \in Responses(PageUrl(PackageId(package_id))) :
                  LET new_data == get_fdroid_metadata(package_id, response)
                  IN  /\ web' = Fetched(PageUrl(PackageId(package_id)), response)
                      /\ clean' = (clean /\ response # <<>>)
                      /\ iterations' = Append(iterations,
                             [line |-> lines[idx], package_id |-> package_id,
                              exists |-> FALSE, fetched |-> TRUE, new_data |-> new_data])
                      /\ IF new_data # <<>>
                         THEN /\ sync_apps' = Append(sync_apps, new_data[1])
                              /\ is_modified' = TRUE
                              /\ dirty' = TRUE
                         ELSE UNCHANGED <<sync_apps, is_modified, dirty>>
    /\ idx' = idx + 1
    /\ UNCHANGED <<files, pc, command, runs, lines, update_locals, reads, writes,
                   read_dirty, loaded, sweeps, swept, last, checks, saved, summary>>

\* lines 148-149: the loop is over; save if modified
ReconcileEnd ==
    /\ pc = "reconcile"
    /\ idx > Len(lines)
    /\ IF is_modified
       THEN \E f \in save_apps(apps_file, sync_apps) :
              /\ apps_file' = f
              /\ writes' = writes + 1
              /\ saved' = Append(saved, [by |-> "sync", memory |-> sync_apps,
                                         base |-> loaded, count |-> 0])
              /\ clean' = (clean /\ f = [kind |-> "json", apps |-> sync_apps])
       ELSE UNCHANGED <<apps_file, writes, saved, clean>>
    /\ pc' = "call_update"
    /\ UNCHANGED <<tracked_file, web, command, runs, sync_locals, update_locals,
                   reads, dirty, read_dirty, loaded, iterations, sweeps, swept, last,
                   checks, summary>>

(***************************************************************************)
(* update_all                                                              *)
(***************************************************************************)
UNKNOWN_VERSION == <<"Unknown">>

\* lines 163-165: the record looks like an F-Droid app
LooksLikeFdroid(app) ==
    ContainsDomain(Get(app, "repoUrl", <<>>)) \/ Get(app, "author", <<>>) = <<"F-Droid">>

\* line 178
UpdateFound(app, new_data) ==
    /\ new_data.latestVersion # Get(app, "latestVersion", <<"0.0.0">>)
    /\ new_data.latestVersion # UNKNOWN_VERSION

\* a sweep that copies every extracted field: app.update(new_data)
UpdatedWholesale(app, new_data) ==
    [k \in DOMAIN app \cup DOMAIN new_data |->
        IF k \in DOMAIN new_data THEN new_data[k] ELSE app[k]]

\* lines 182-186
Updated(app, new_data) ==
    LET versions == DictSet(DictSet(app, "version", new_data.latestVersion),
                            "latestVersion", new_data.latestVersion)
        download == DictSet(versions, "downloadUrl", new_data.downloadUrl)
    IN  IF new_data.icon # <<>> THEN DictSet(download, "icon", new_data.icon)
        ELSE download

\* lines 156-159
UpdateEnter ==
    /\ apps' = load_apps(apps_file)
    /\ updated_count' = 0
    /\ pos' = 1
    /\ pc' = "sweep"
    /\ swept' = load_apps(apps_file)
    /\ UNCHANGED <<files, web, clean>>

\* the `update` command
UpdateCommand ==
    /\ NewCommand("update")
    /\ UpdateEnter
    /\ UNCHANGED command
    /\ lines' = <<>> /\ idx' = 1 /\ sync_apps' = <<>> /\ is_modified' = FALSE
    /\ reads' = 1 /\ writes' = 0 /\ dirty' = FALSE /\ read_dirty' = FALSE
    /\ loaded' = <<>> /\ iterations' = <<>> /\ sweeps' = 1
    /\ last' = <<>> /\ checks' = <<>> /\ saved' = <<>> /\ summary' = FALSE

\* a call that hands the catalog of sync_tracked_apps to the sweep, without a read
SyncCallsUpdateNoReload ==
    /\ pc = "call_update"
    /\ apps' = sync_apps
    /\ updated_count' = 0
    /\ pos' = 1
    /\ pc' = "sweep"
    /\ swept' = sync_apps
    /\ sweeps' = sweeps + 1
    /\ UNCHANGED <<files, web, clean, command, runs, sync_locals, reads, writes, dirty,
                   read_dirty, loaded, iterations, last, checks, saved, summary>>

\* line 152: sync_tracked_apps calls update_all
SyncCallsUpdate ==
    /\ pc = "call_update"
    /\ UpdateEnter
    /\ reads' = reads + 1
    /\ read_dirty' = dirty
    /\ dirty' = FALSE
    /\ sweeps' = sweeps + 1
    /\ UNCHANGED <<command, runs, sync_locals, writes, loaded, iterations, last,
                   checks, saved, summary>>

\* lines 161-190: one iteration of the loop
SweepStep ==
    /\ pc = "sweep"
    /\ pos <= Len(apps)
    /\ LET app == apps[pos]
           pkg == Get(app, "packageName", <<>>)
           entry == [index |-> pos, catalog |-> apps, count |-> updated_count]
       IN  IF ~LooksLikeFdroid(app) \/ pkg = <<>>
           THEN /\ last' = << entry @@ [outcome |-> "skipped", response |-> <<>>,
                                        new_data |-> <<>>] >>
                /\ pos' = pos + 1
                /\ UNCHANGED <<apps, updated_count, web, clean, dirty, pc, checks>>
           ELSE IF "name" \notin DOMAIN app
           THEN /\ last' = << entry @@ [outcome |-> "raised", response |-> <<>>,
                                        new_data |-> <<>>] >>
                /\ pc' = "crashed"                        \* line 170: KeyError
                /\ UNCHANGED <<apps, updated_count, web, clean, dirty, pos, checks>>
           ELSE \E response \in Responses(PageUrl(PackageId(pkg))) :
                  LET new_data == get_fdroid_metadata(pkg, response)
                  IN  /\ web' = Fetched(PageUrl(PackageId(pkg)), response)
                      /\ clean' = (clean /\ response # <<>>)
                      /\ last' = << entry @@ [outcome |-> "fetched", response |-> response,
                                              new_data |-> new_data] >>
                      /\ checks' =
                             IF new_data = <<>> THEN checks
                             ELSE Append(checks,
                                         [stored |-> IF "latestVersion" \in DOMAIN app
                                                     THEN <<app.latestVersion>> ELSE <<>>,
                                          fetched |-> new_data[1].latestVersion])
                      /\ pos' = pos + 1
                      /\ pc' = pc
                      /\ IF new_data # <<>> /\ UpdateFound(app, new_data[1])
                         THEN /\ apps' = [apps EXCEPT ![pos] = Updated(app, new_data[1])]
                              /\ updated_count' = updated_count + 1
                              /\ dirty' = TRUE
                         ELSE UNCHANGED <<apps, updated_count, dirty>>
    /\ UNCHANGED <<files, command, runs, sync_locals, reads, writes, read_dirty,
                   loaded, iterations, sweeps, swept, saved, summary>>

\* an end of the sweep that saves whatever the count
SweepEndAlwaysSaves ==
    /\ pc = "sweep"
    /\ pos > Len(apps)
    /\ \E f \in save_apps(apps_file, apps) :
          /\ apps_file' = f
          /\ writes' = writes + 1
          /\ saved' = Append(saved, [by |-> "update", memory |-> apps,
                                     base |-> swept, count |-> updated_count])
          /\ clean' = (clean /\ f = [kind |-> "json", apps |-> apps])
    /\ summary' = TRUE
    /\ pc' = "done"
    /\ UNCHANGED <<tracked_file, web, command, runs, sync_locals, update_locals,
                   reads, dirty, read_dirty, loaded, iterations, sweeps, swept, last,
                   checks>>

\* lines 192-196: the loop is over; save if anything was updated, print the summary
SweepEnd ==
    /\ pc = "sweep"
    /\ pos > Len(apps)
    /\ IF updated_count > 0
       THEN \E f \in save_apps(apps_file, apps) :
              /\ apps_file' = f
              /\ writes' = writes + 1
              /\ saved' = Append(saved, [by |-> "update", memory |-> apps,
                                         base |-> swept, count |-> updated_count])
              /\ clean' = (clean /\ f = [kind |-> "json", apps |-> apps])
       ELSE UNCHANGED <<apps_file, writes, saved, clean>>
    /\ summary' = TRUE
    /\ pc' = "done"
    /\ UNCHANGED <<tracked_file, web, command, runs, sync_locals, update_locals,
                   reads, dirty, read_dirty, loaded, iterations, sweeps, swept, last,
                   checks>>

Next ==
    \/ SyncNoTrackedFile
    \/ SyncStart
    \/ ReconcileStep
    \/ ReconcileEnd
    \/ SyncCallsUpdate
    \/ UpdateCommand
    \/ SweepStep
    \/ SweepEnd

\* one command, from any catalog and any tracked file
Spec == Init /\ [][Next]_vars

\* `sync` commands one after the other, on the files the one before left
NextTwice == Next \/ SyncAgain

SpecTwice == Init /\ [][NextTwice]_vars

(***************************************************************************)
(* Properties.                                                             *)
(***************************************************************************)
Ended == pc \in {"returned", "done", "crashed"}

\* the reconcile loop of the running command is over
LoopOver == command = "sync" /\ pc \in {"call_update", "sweep", "done", "crashed"}

\* the packageName values of a catalog are pairwise distinct
Distinct(catalog) ==
    \A i, j \in 1..Len(catalog) :
        (/\ i # j
         /\ "packageName" \in DOMAIN catalog[i]
         /\ "packageName" \in DOMAIN catalog[j]) =>
            catalog[i].packageName # catalog[j].packageName

\* C1: from a catalog whose packageName values are pairwise distinct, the reconcile
\* loop never appends a record whose packageName a record of the catalog already
\* has: packageName stays unique.
C1_PackageNameUnique ==
    (command = "sync" /\ Distinct(loaded)) => Distinct(sync_apps)

\* C2: a second sync on the same tracked list and the same pages, no request
\* raising and no save failing, appends nothing: the catalog after its loop is the
\* catalog the first run left.
C2_ReconcileIdempotent ==
    (runs = 2 /\ clean) => (sync_apps = loaded /\ ~is_modified)

\* the page has no version header
NoVersionHeader(page) ==
    page.version_item = <<>> \/ page.version_item[1].header = <<>>

\* C3: when the page fetched for a record has no version header, update_all leaves
\* the record as it was and does not count it as updated.
C3_SentinelLeavesRecord ==
    (/\ last # <<>>
     /\ last[1].response # <<>>
     /\ last[1].new_data # <<>>
     /\ NoVersionHeader(last[1].response[1])) =>
        (/\ apps[last[1].index] = last[1].catalog[last[1].index]
         /\ updated_count = last[1].count)

OverwrittenFields == {"version", "latestVersion", "downloadUrl", "icon"}

\* C4: an iteration of the sweep leaves the length and every other record of the
\* catalog alone; it leaves its record alone when the fetched latestVersion equals
\* the stored one, and whenever it counts no update; when it counts an update it
\* sets version and latestVersion to the fetched latestVersion, downloadUrl to the
\* fetched one, icon to the fetched one if that is non-empty, and nothing else.
C4_SweepFrame ==
    last # <<>> =>
        LET step == last[1]
            old == step.catalog[step.index]
            new == apps[step.index]
            counted == updated_count = step.count + 1
        IN  /\ Len(apps) = Len(step.catalog)
            /\ \A j \in 1..Len(apps) : j # step.index => apps[j] = step.catalog[j]
            /\ updated_count \in {step.count, step.count + 1}
            /\ ~counted => new = old
            /\ (/\ step.new_data # <<>>
                /\ "latestVersion" \in DOMAIN old
                /\ step.new_data[1].latestVersion = old.latestVersion) => new = old
            /\ counted =>
                 LET fresh == step.new_data[1]
                     written == IF fresh.icon # <<>> THEN OverwrittenFields
                                ELSE OverwrittenFields \ {"icon"}
                 IN  /\ DOMAIN new = DOMAIN old \cup written
                     /\ new.version = fresh.latestVersion
                     /\ new.latestVersion = fresh.latestVersion
                     /\ new.downloadUrl = fresh.downloadUrl
                     /\ fresh.icon # <<>> => new.icon = fresh.icon
                     /\ \A k \in DOMAIN old \ written : new[k] = old[k]

\* C4's case: an update is counted for a record that has a field the extractor
\* would have set otherwise, in a catalog of several records
C4_Witness ==
    /\ last # <<>>
    /\ updated_count = last[1].count + 1
    /\ Len(apps) > 1
    /\ "category" \in DOMAIN apps[last[1].index]
    /\ apps[last[1].index].category # last[1].new_data[1].category

\* C5: every sync command calls update_all exactly once, and update_all sweeps the
\* catalog the reconcile loop left.
C5_SweeperOnceOnReconciled ==
    (command = "sync" /\ Ended) => (sweeps = 1 /\ swept = sync_apps)

\* C6: no item makes the run stop: sync_tracked_apps and update_all never end on an
\* exception.
C6_ErrorsIsolated == pc # "crashed"

\* a line the reading of tracked_apps.txt ignores
Ignored(l) == Strip(l) = <<>> \/ l[1] = "#"

\* C7: the iterations of the reconcile loop are, in file order and once each, the
\* lines of tracked_apps.txt that are neither empty after trimming nor start with
\* "#"; an ignored line gets no iteration, so no existence check and no fetch.
C7_TrackedLinesFiltered ==
    (command = "sync" /\ tracked_file # <<>> /\ pc # "idle") =>
        LET raw == tracked_file[1]
            kept == SelectSeq(raw, LAMBDA l : ~Ignored(l))
        IN  /\ Len(iterations) <= Len(kept)
            /\ \A k \in 1..Len(iterations) : iterations[k].line = Strip(kept[k])
            /\ LoopOver => Len(iterations) = Len(kept)

\* C7's case: the loop is over, the file held an ignored line and a processed one
C7_Witness ==
    /\ LoopOver
    /\ \E i \in 1..Len(tracked_file[1]) : Ignored(tracked_file[1][i])
    /\ iterations # <<>>

\* C8: a command that ran to its end read apps.json exactly once, wrote it at most
\* once, and never read it after mutating the catalog in memory.
C8_ReadOnceWriteOnce ==
    pc = "done" => (reads = 1 /\ writes <= 1 /\ ~read_dirty)

\* C8 as amended: every call of sync_tracked_apps that finds the tracked file and
\* every call of update_all reads apps.json exactly once, when it starts, and writes
\* it at most once, when its loop is over.  `update` is one such call; `sync` is
\* two, so it reads the file twice and writes it at most twice, and its second
\* read, the one of update_all, may follow appends to the catalog of
\* sync_tracked_apps.  No call reads the file after mutating its own catalog.
C8_ReadOncePerCall ==
    /\ reads = (IF command = "sync" /\ pc \notin {"idle", "returned"} THEN 1 ELSE 0)
               + sweeps
    /\ sweeps <= 1
    /\ command = "update" => (writes <= 1 /\ ~read_dirty)
    /\ writes = Len(saved)
    /\ \A i, j \in 1..Len(saved) : i < j => (saved[i].by = "sync" /\ saved[j].by = "update")
    /\ (pc = "reconcile" => writes = 0)
    /\ (pc = "sweep" => \A i \in 1..Len(saved) : saved[i].by = "sync")
    /\ read_dirty => (command = "sync" /\ is_modified /\ reads = 2)
    /\ (dirty /\ pc \in {"sweep", "done", "crashed"}) => apps # swept

\* C8's case: a sync command that read twice, the second time after an append, and
\* wrote twice
C8_Witness == command = "sync" /\ pc = "done" /\ reads = 2 /\ writes = 2 /\ read_dirty

\* the catalog after the first k iterations, were the loop to append exactly the
\* successful extractions
RECURSIVE Reconciled(_)
Reconciled(k) ==
    IF k = 0 THEN loaded
    ELSE Reconciled(k - 1) \o iterations[k].new_data

\* C9: the catalog of the reconcile loop is the loaded catalog followed by the
\* successful extractions, in file order, and an extraction is made exactly for the
\* lines whose identifier no record of the catalog had when the line was reached.
C9_ReconcileAppendsOnly ==
    command = "sync" =>
        /\ sync_apps = Reconciled(Len(iterations))
        /\ \A k \in 1..Len(iterations) :
             LET present == \E r \in 1..Len(Reconciled(k - 1)) :
                               /\ "packageName" \in DOMAIN Reconciled(k - 1)[r]
                               /\ Reconciled(k - 1)[r].packageName
                                      = LastSegment(RStripSlash(iterations[k].line))
             IN  /\ iterations[k].exists = present
                 /\ iterations[k].fetched = ~present
                 /\ present => iterations[k].new_data = <<>>

\* C9's case: the loop is over; it skipped a line that was present, failed on one
\* or appended one, after a catalog that was not empty
C9_Witness ==
    /\ LoopOver
    /\ loaded # <<>>
    /\ Len(iterations) = 2
    /\ iterations[1].exists
    /\ iterations[2].new_data # <<>>

\* C10: save_apps is called by sync_tracked_apps only after an append and by
\* update_all only with a nonzero count, and always on a catalog that differs from
\* the loaded one; a run where every tracked identifier is present and every
\* fetched version equals the stored one writes nothing.
C10_WriteOnlyIfChanged ==
    /\ writes = Len(saved)
    /\ \A i \in 1..Len(saved) :
         /\ saved[i].memory # saved[i].base
         /\ saved[i].by = "sync" => Len(saved[i].memory) > Len(saved[i].base)
         /\ saved[i].by = "update" => saved[i].count > 0
    /\ (/\ \A k \in 1..Len(iterations) : iterations[k].exists
        /\ \A k \in 1..Len(checks) : checks[k].stored = <<checks[k].fetched>>)
       => writes = 0

\* C10's case: a sync command ended without a write, having found a tracked
\* identifier present and a fetched version equal to the stored one
C10_Witness ==
    /\ command = "sync" /\ pc = "done" /\ writes = 0
    /\ iterations # <<>> /\ checks # <<>>

====
